---- MODULE Spec2Model ----
(***************************************************************************)
(* A model of the WebGPU point-cloud viewer.  The repository holds three   *)
(* near-duplicate builds of the viewer script:                             *)
(*   "tri"   src/main.js:1-383      (3 vertices per point, auto-rotation)  *)
(*   "quad"  src/main.js:384-662    (6 vertices per point)                 *)
(*   "point" src/unnamed/part_000   (1 vertex per point, no depth buffer)  *)
(* A session runs exactly one of them; `variant` records which.            *)
(*                                                                         *)
(* Units.  Angles are in 1/1000 rad, the camera distance in 1/1000 world   *)
(* units, time in ms, colour channels in 1/255 (so 255 is 1.0).  A number  *)
(* stored in a Float32Array is a record [nan, v]; Float32 rounding of the  *)
(* stored value is not modelled.                                           *)
(***************************************************************************)
EXTENDS Integers, Sequences, FiniteSets, TLC

(***************************************************************************)
(* Bounds of the model (not program constants).                            *)
(***************************************************************************)
\* number of points the procedural generator emits (50000 / 31300 in the code)
NumDefaultPoints == 2
\* file selections per session
MaxLoads == 2
\* record lines, and declared vertex count, of a generated PLY text
MaxRecords == 2
\* the clock stops the frame loop of the model at this time (ms)
MaxTime == 2500
\* |yaw| and |pitch| beyond which the model takes no further drag (1/1000 rad)
MaxAngle == 4000

Variants == {"tri", "quad", "point"}

(***************************************************************************)
(* Float32Array cells.                                                     *)
(***************************************************************************)
Num(n) == [nan |-> FALSE, v |-> n]
NaN == [nan |-> TRUE, v |-> 0]

(***************************************************************************)
(* State.                                                                  *)
(***************************************************************************)
VARIABLES
  variant,        \* which build of the script runs
  hasGPU,         \* navigator.gpu is present (environment, fixed)
  pc,             \* position of init(): "start", "awaitAdapter", "awaitDevice",
                  \* "running" (init returned after starting the loop),
                  \* "unsupported" (initWebGPU returned false), "threw"
  device,         \* device has been assigned
  context,        \* context has been assigned and configured
  pipeline,       \* pipeline # null
  innerSize,      \* window.innerWidth/Height * devicePixelRatio (environment)
  canvas,         \* canvas.width/height
  depthTexture,   \* size of the depth texture, 0 when null
  camera,         \* [z, rotX, rotY]
  isDragging,
  lastMouse,      \* [x, y]
  vertexBuffer,   \* <<>> when null, else <<data>> with data the vertex sequence
  vertexCount,
  status,         \* status.textContent
  frameCount,
  fpsUpdateTime,  \* fpsUpdateTime (main.js) / lastTime (part_000)
  fpsText,        \* number shown in fpsEl, -1 before the first report
  now,            \* the clock: performance.now() and the RAF timestamp
  rafPending,     \* number of render callbacks requestAnimationFrame holds
  pending,        \* file.arrayBuffer() reads in flight: set of [file, seq],
                  \* file the lines of the text, seq the number of the selection
  nextSeq,        \* number of file selections so far
  ghost           \* history: what the last handler did (not program state)

vars == <<variant, hasGPU, pc, device, context, pipeline, innerSize, canvas,
          depthTexture, camera, isDragging, lastMouse, vertexBuffer,
          vertexCount, status, frameCount, fpsUpdateTime, fpsText, now,
          rafPending, pending, nextSeq, ghost>>

(***************************************************************************)
(* Per-build configuration.                                                *)
(***************************************************************************)
\* vertices emitted per point
VerticesPerPoint(v) == CASE v = "tri" -> 3 [] v = "quad" -> 6 [] OTHER -> 1

\* let camera = { x: 0, y: 0, z: .., rotX: .., rotY: .. }
InitialCamera(v) ==
  CASE v = "tri"  -> [z |-> 3000, rotX |-> 300, rotY |-> 500]
    [] v = "quad" -> [z |-> 5000, rotX |-> 500, rotY |-> 0]
    [] OTHER      -> [z |-> 5000, rotX |-> 0,   rotY |-> 0]

\* let animating = true / false; part_000 has no auto-rotation at all
animating(v) == v = "tri"

Min(a, b) == IF a < b THEN a ELSE b
Max(a, b) == IF a > b THEN a ELSE b

\* (the clamp with Math.min left out)
ClampZNoUpper(v, z) == Max(1000, z)
\* camera.z = Math.max(1, Math.min(10 or 50, camera.z))
ClampZ(v, z) == Max(1000, Min(IF v = "point" THEN 50000 ELSE 10000, z))

\* camera.z += e.deltaY * 0.005 (0.01 in part_000); then the clamp
WheelZ(v, z, deltaY) == ClampZ(v, z + deltaY * (IF v = "point" THEN 10 ELSE 5))

\* (main.js with the clamp line left out, as in part_000)
ClampPitchNone(v, rotX) == rotX
\* camera.rotX = Math.max(-1.5, Math.min(1.5, camera.rotX)); absent in part_000
ClampPitch(v, rotX) == IF v = "point" THEN rotX ELSE Max(-1500, Min(1500, rotX))

(***************************************************************************)
(* Geometry: the procedural generator and the vertex expansion.            *)
(***************************************************************************)
\* a point as the generators produce it: position and colour (x,y,z,r,g,b)
SamplePoints ==
  { [x |-> 1, y |-> 2, z |-> 3, r |-> 200, g |-> 100, b |-> 50],
    [x |-> -4, y |-> 0, z |-> 7, r |-> 25, g |-> 255, b |-> 0] }

\* generateScene / the sampling loop of generateDefaultCloud: Math.random()
\* makes every sequence of points a possible outcome
Scenes == [1..NumDefaultPoints -> SamplePoints]
\* one of them, with two different points
DefaultScene ==
  [i \in 1..NumDefaultPoints |->
     IF i = 1 THEN [x |-> 1, y |-> 2, z |-> 3, r |-> 200, g |-> 100, b |-> 50]
     ELSE [x |-> -4, y |-> 0, z |-> 7, r |-> 25, g |-> 255, b |-> 0]]

\* the 7 floats written for one vertex of point p
VertexOf(p) == <<Num(p.x), Num(p.y), Num(p.z), Num(p.r), Num(p.g), Num(p.b), Num(255)>>

\* (the expansion with the copies of a point interleaved instead of adjacent)
ExpandShared(points, k) ==
  [idx \in 1..(Len(points) * k) |-> VertexOf(points[((idx - 1) % Len(points)) + 1])]
\* data[(i*k + j)*7 ..] = point i, for j in 0..k-1
Expand(points, k) ==
  [idx \in 1..(Len(points) * k) |-> VertexOf(points[((idx - 1) \div k) + 1])]

\* generateDefaultCloud(): { data, count }
generateDefaultCloud(v, points) ==
  [data |-> Expand(points, VerticesPerPoint(v)),
   count |-> Num(Len(points) * VerticesPerPoint(v))]

(***************************************************************************)
(* PLY text.  A file is the array text.split('\n'); a line is the sequence *)
(* of its space-separated tokens; a token is a word or a decimal number.   *)
(***************************************************************************)
W(s) == [w |-> s, n |-> 0]
N(n) == [w |-> "", n |-> n]

\* parseFloat(p[i]) / parseInt(tok): NaN for a missing or non-numeric token
ParseNumber(line, i) ==
  IF i <= Len(line) /\ line[i].w = "" THEN Num(line[i].n) ELSE NaN

\* lines[i].startsWith('element vertex')
IsElementVertex(line) ==
  Len(line) >= 2 /\ line[1] = W("element") /\ line[2] = W("vertex")

\* lines[i] === 'end_header'
IsEndHeader(line) == line = <<W("end_header")>>

\* the header loop: pointCount and headerEnd when the scan is at line i (1-based)
RECURSIVE ScanHeader(_, _, _)
ScanHeader(lines, i, pointCount) ==
  IF i > Len(lines) THEN [pointCount |-> pointCount, headerEnd |-> 0]
  ELSE LET pc1 == IF IsElementVertex(lines[i]) THEN ParseNumber(lines[i], 3)
                  ELSE pointCount
       IN IF IsEndHeader(lines[i]) THEN [pointCount |-> pc1, headerEnd |-> i]
          ELSE ScanHeader(lines, i + 1, pc1)

\* (parseFloat(p[i]) || 128) / 255, in 1/255
ColourChannel(line, i) ==
  LET c == ParseNumber(line, i) IN IF c.nan \/ c.v = 0 THEN Num(128) ELSE c

\* the 7 floats written for one vertex of the record on `line`
RecordVertex(line) ==
  <<ParseNumber(line, 1), ParseNumber(line, 2), ParseNumber(line, 3),
    ColourChannel(line, 4), ColourChannel(line, 5), ColourChannel(line, 6),
    Num(255)>>

\* pointCount * k, as JavaScript computes it
Times(c, k) == IF c.nan THEN NaN ELSE Num(c.v * k)

\* new Float32Array(n): a NaN length gives an empty array, a negative length
\* is a RangeError
ArrayThrows(c) == ~c.nan /\ c.v < 0

\* i < pointCount holds for no i when pointCount is NaN
LoopCount(c) == IF c.nan \/ c.v < 0 THEN 0 ELSE c.v

\* the decode of parsePLY (main.js) / parsePLY + loadPLY (part_000) up to the
\* buffer upload: the scan, the allocation and the record loop.  threw: the
\* allocation failed or lines[headerEnd + i] was undefined for some i.
\* points is the list of decoded records, data the Float32Array built from it.
Decode(v, lines) ==
  LET h == ScanHeader(lines, 1, Num(0))
      k == VerticesPerPoint(v)
      vertCount == Times(h.pointCount, k)
      n == LoopCount(h.pointCount)
      short == h.headerEnd + n > Len(lines)
  IN [pointCount |-> h.pointCount,
      vertCount |-> vertCount,
      threw |-> ArrayThrows(Times(vertCount, 7)) \/ short,
      points |-> IF short THEN <<>>
                 ELSE [i \in 1..n |-> RecordVertex(lines[h.headerEnd + i])],
      data |-> IF short THEN <<>>
               ELSE [idx \in 1..(n * k) |->
                       RecordVertex(lines[h.headerEnd + ((idx - 1) \div k) + 1])]]

(***************************************************************************)
(* Inputs of the environment.                                              *)
(***************************************************************************)
\* files the user can pick in a session (the lines of each)
FileNames == {"two", "zero", "short", "badcount"}
FileLines(f) ==
  CASE f = "two" ->
         << <<W("ply")>>, <<W("element"), W("vertex"), N(2)>>, <<W("end_header")>>,
            <<N(1), N(2), N(3), N(10), N(20), N(30)>>, <<N(4), N(5), N(6)>>, <<>> >>
    [] f = "zero" ->
         << <<W("element"), W("vertex"), N(1)>>, <<W("end_header")>>,
            <<N(7), N(8), N(9), N(0), N(0), N(255)>> >>
    [] f = "short" ->
         << <<W("element"), W("vertex"), N(3)>>, <<W("end_header")>>,
            <<N(1), N(2), N(3), N(10), N(20), N(30)>> >>
    [] OTHER ->
         << <<W("element"), W("vertex")>>, <<W("end_header")>>, <<N(1), N(2), N(3)>> >>

Files == {FileLines(f) : f \in FileNames}

\* generated PLY texts: a header (well-formed, without the count line, or
\* without end_header) declaring 0..MaxRecords vertices, then up to MaxRecords
\* record lines
RecordLines ==
  { <<N(1), N(2), N(3), N(10), N(20), N(30)>>,
    <<N(4), N(5), N(6)>>,
    <<N(7), N(8), N(9), N(0), N(0), N(255)>>,
    <<N(1), N(2), N(3), W("x"), N(20)>>,
    <<W("x"), N(2), N(3), N(10), N(20), N(30)>> }
Headers ==
  { << <<W("ply")>>, <<W("end_header")>> >> }
  \cup { << <<W("ply")>>, <<W("element"), W("vertex"), N(n)>>, <<W("end_header")>> >>
          : n \in 0..MaxRecords }
  \cup { << <<W("ply")>>, <<W("element"), W("vertex"), N(n)>> >> : n \in 0..MaxRecords }
DecodeFiles ==
  { h \o r : h \in Headers, r \in UNION {[1..m -> RecordLines] : m \in 0..MaxRecords} }

\* window sizes (ids of width x height); 0 is the canvas' size before resize()
WindowSizes == {1, 2}
\* the width and height (device pixels) each id stands for
Dims(size) ==
  CASE size = 1 -> [w |-> 800, h |-> 400]
    [] size = 2 -> [w |-> 600, h |-> 600]
    [] OTHER    -> [w |-> 300, h |-> 150]
\* pointer positions of mouse events
MousePositions == {[x |-> 0, y |-> 0], [x |-> 100, y |-> 200]}
\* e.deltaY of wheel events
WheelDeltas == {-3000, 1000, 3000}
\* time between two frame callbacks (ms)
TickSteps == {500}
\* the clock when the script is evaluated
StartTimes == {0, 1200}

(***************************************************************************)
(* Status texts: a message and the number printed in it.                   *)
(***************************************************************************)
Text(msg) == [msg |-> msg, n |-> Num(0)]
TextN(msg, n) == [msg |-> msg, n |-> n]

\* History kept beside the program state.  Of the last handler: op (its name),
\* threw (it ended in an uncaught exception), rendered (it ran render()), idle
\* (render() found no pipeline or buffer), drew (pass.draw was issued), drawArg
\* and drawLen (the count passed and the vertices in the bound buffer), reported
\* (the FPS text was written), mvp (<<m>> when it wrote matrix m to
\* uniformBuffer, else <<>>), attempted (it reached the creation of a vertex
\* buffer for a picked file), offsets (the local offset the vertex shader gave
\* each vertex of the last draw).  Of the session: bufLoad / cntLoad (which load
\* wrote vertexBuffer / vertexCount: 0 the default cloud, n the n-th selected
\* file, -1 none), points (the point list of the load in vertexBuffer), file (the
\* text of the last load handled), ticks and winStart (render() runs since, and
\* start of, the current FPS window), pressed (the pointer was pressed on the
\* canvas and has neither been released nor left it since), failed (some file
\* load ended in an exception), picked (the text of the file picked last).
NoGhost == [op |-> "none", threw |-> FALSE, rendered |-> FALSE, idle |-> FALSE,
            drew |-> FALSE, drawArg |-> Num(0), drawLen |-> 0, reported |-> FALSE,
            bufLoad |-> -1, cntLoad |-> -1, points |-> <<>>, file |-> <<>>,
            ticks |-> 0,
            winStart |-> 0, offsets |-> <<>>, mvp |-> <<>>, pressed |-> FALSE,
            attempted |-> FALSE, failed |-> FALSE, picked |-> <<>>]

Init ==
  /\ variant \in Variants
  /\ hasGPU \in BOOLEAN
  /\ pc = "start"
  /\ device = FALSE
  /\ context = FALSE
  /\ pipeline = FALSE
  /\ innerSize = 1
  /\ canvas = 0
  /\ depthTexture = 0
  /\ camera = InitialCamera(variant)
  /\ isDragging = FALSE
  /\ lastMouse = [x |-> 0, y |-> 0]
  /\ vertexBuffer = <<>>
  /\ vertexCount = Num(0)
  /\ status = Text("")
  /\ frameCount = 0
  /\ now \in StartTimes
  /\ fpsUpdateTime = IF variant = "point" THEN now ELSE 0
  /\ fpsText = -1
  /\ rafPending = 0
  /\ pending = {}
  /\ nextSeq = 0
  /\ ghost = [NoGhost EXCEPT !.op = "script", !.winStart = fpsUpdateTime]

\* the history record at the start of a handler named op
Begin(op) == [ghost EXCEPT !.op = op, !.threw = FALSE, !.rendered = FALSE,
                           !.idle = FALSE, !.drew = FALSE, !.reported = FALSE,
                           !.mvp = <<>>, !.attempted = FALSE]

(***************************************************************************)
(* The frame tick.                                                         *)
(***************************************************************************)
\* frameCount++; if (time - fpsUpdateTime >= 1000) { report; reset }
\* report is the number written to fpsEl, -1 when nothing is written
UpdateFPS(fc, start, time) ==
  IF time - start >= 1000
  THEN [frameCount |-> 0, fpsUpdateTime |-> time, report |-> fc + 1]
  ELSE [frameCount |-> fc + 1, fpsUpdateTime |-> start, report |-> -1]

KeepFPS(fc, start) == [frameCount |-> fc, fpsUpdateTime |-> start, report |-> -1]

\* pass.draw(vertexCount): GPUSize32 is [EnforceRange] unsigned long, so the
\* call throws a TypeError for NaN and for a negative count
DrawThrows(count) == count.nan \/ count.v < 0

\* (the rotation without the test of isDragging)
AutoRotateAlways(v, cam, dragging) ==
  IF animating(v) THEN [cam EXCEPT !.rotY = @ + 5] ELSE cam
\* if (animating && !isDragging) camera.rotY += 0.005
AutoRotate(v, cam, dragging) ==
  IF animating(v) /\ ~dragging THEN [cam EXCEPT !.rotY = @ + 5] ELSE cam

(***************************************************************************)
(* Matrices.  A matrix is the sequence of the 16 numbers of its            *)
(* Float32Array (index n of the array is element n + 1 of the sequence).   *)
(* The entries of perspective() and lookAt() are in 1/1000, those of a     *)
(* product in 1/1000000; products and sums are exact.                      *)
(***************************************************************************)
\* n / 1000, rounded toward zero
Scale(n) == IF n < 0 THEN -((-n) \div 1000) ELSE n \div 1000

\* Math.sin on [-pi/2, pi/2] (1/1000 rad in, 1/1000 out): the series
\* a(1 - a^2/6 (1 - a^2/20 (1 - a^2/42)))
SinQ(a) ==
  LET q == (a * a) \div 1000
      t3 == 1000 - q \div 42
      t2 == 1000 - (q * t3) \div 20000
      t1 == 1000 - (q * t2) \div 6000
  IN Scale(a * t1)

\* Math.sin(a) and Math.cos(a), by reduction of a to [-pi/2, pi/2]
Sin(a) ==
  LET r == a % 6283
  IN IF r <= 1571 THEN SinQ(r)
     ELSE IF r <= 4712 THEN SinQ(3142 - r)
     ELSE SinQ(r - 6283)
Cos(a) == Sin(a + 1571)

\* canvas.width / canvas.height
Aspect(size) == (Dims(size).w * 1000) \div Dims(size).h

\* perspective(Math.PI / 4, aspect, 0.1, 100 or 1000); f = 1 / tan(pi / 8),
\* near and far in 1/10
perspective(v, aspect) ==
  LET f == 2414
      near == 1
      far == IF v = "point" THEN 10000 ELSE 1000
  IN << (f * 1000) \div aspect, 0, 0, 0,
        0, f, 0, 0,
        0, 0, -(((far + near) * 1000) \div (far - near)), -1000,
        0, 0, -((2 * far * near * 100) \div (far - near)), 0 >>

\* lookAt(): the rotation by rotX and rotY, then the move back by camera.z
lookAt(cam) ==
  LET cx == Cos(cam.rotX)
      sx == Sin(cam.rotX)
      cy == Cos(cam.rotY)
      sy == Sin(cam.rotY)
  IN << cy, Scale(sx * sy), -Scale(cx * sy), 0,
        0, cx, sx, 0,
        sy, -Scale(sx * cy), Scale(cx * cy), 0,
        0, 0, -cam.z, 1000 >>

\* mulMat4(a, b): o[i*4+j] = a[i*4]*b[j] + a[i*4+1]*b[4+j] + a[i*4+2]*b[8+j]
\*                          + a[i*4+3]*b[12+j]
mulMat4(a, b) ==
  [n \in 1..16 |->
     LET i == (n - 1) \div 4
         j == (n - 1) % 4
     IN a[i*4 + 1] * b[j + 1] + a[i*4 + 2] * b[4 + j + 1]
        + a[i*4 + 3] * b[8 + j + 1] + a[i*4 + 4] * b[12 + j + 1]]

\* const mvp = mulMat4(perspective(..), lookAt()), as render() uploads it
Mvp(v, cv, cam) == mulMat4(perspective(v, Aspect(cv)), lookAt(cam))

(***************************************************************************)
(* The vertex shader.  Offsets are in 1/1000 of the splat size.            *)
(***************************************************************************)
\* (the second triangle taken as corners 1, 2, 3 of the quad)
QuadCornerFan(quadIdx) ==
  CASE quadIdx = 0 -> [x |-> -1000, y |-> -1000]
    [] quadIdx = 1 -> [x |-> 1000, y |-> -1000]
    [] quadIdx = 2 -> [x |-> 1000, y |-> 1000]
    [] quadIdx = 3 -> [x |-> 1000, y |-> -1000]
    [] quadIdx = 4 -> [x |-> 1000, y |-> 1000]
    [] OTHER       -> [x |-> -1000, y |-> 1000]
\* the if / else-if chain of vs in the second build of main.js
QuadCorner(quadIdx) ==
  CASE quadIdx = 0 -> [x |-> -1000, y |-> -1000]
    [] quadIdx = 1 -> [x |-> 1000, y |-> -1000]
    [] quadIdx = 2 -> [x |-> 1000, y |-> 1000]
    [] quadIdx = 3 -> [x |-> -1000, y |-> -1000]
    [] quadIdx = 4 -> [x |-> 1000, y |-> 1000]
    [] OTHER       -> [x |-> -1000, y |-> 1000]

\* the chain of vs in the first build: a small triangle around the point
TriCorner(triIdx) ==
  CASE triIdx = 0 -> [x |-> 0, y |-> 1000]
    [] triIdx = 1 -> [x |-> -866, y |-> -500]
    [] OTHER      -> [x |-> 866, y |-> -500]

\* the offset vs adds for vertex_index vid (vs_main of part_000 adds none)
LocalOffset(v, vid) ==
  CASE v = "quad" -> QuadCorner(vid % 6)
    [] v = "tri"  -> TriCorner(vid % 3)
    [] OTHER      -> [x |-> 0, y |-> 0]

\* pass.draw(count): vs runs for vertex_index 0..count-1
DrawOffsets(v, count) == [n \in 1..count |-> LocalOffset(v, n - 1)]

\* the early return of render(): requestAnimationFrame(render); return
\* (part_000 also runs updateFPS() there)
RenderIdle(v, cam, fc, start, time) ==
  [camera |-> cam, fps |-> IF v = "point" THEN UpdateFPS(fc, start, time)
                           ELSE KeepFPS(fc, start),
   mvp |-> <<>>,
   idle |-> TRUE, drew |-> FALSE, threw |-> FALSE, scheduled |-> 1]

\* render(time) past the early return; mvp is <<m>> for the matrix m written
\* to uniformBuffer (before the draw), <<>> when none is written
RenderDraw(v, cv, count, cam, dragging, fc, start, time) ==
  IF v = "point"
  THEN \* the upload, the draw, then updateFPS(), requestAnimationFrame(render)
       [camera |-> cam,
        mvp |-> <<Mvp(v, cv, cam)>>,
        fps |-> IF DrawThrows(count) THEN KeepFPS(fc, start)
                ELSE UpdateFPS(fc, start, time),
        idle |-> FALSE, drew |-> ~DrawThrows(count), threw |-> DrawThrows(count),
        scheduled |-> IF DrawThrows(count) THEN 0 ELSE 1]
  ELSE \* auto-rotation, FPS, the upload, the draw, then
       \* requestAnimationFrame(render)
       [camera |-> AutoRotate(v, cam, dragging),
        mvp |-> <<Mvp(v, cv, AutoRotate(v, cam, dragging))>>,
        fps |-> UpdateFPS(fc, start, time),
        idle |-> FALSE, drew |-> ~DrawThrows(count), threw |-> DrawThrows(count),
        scheduled |-> IF DrawThrows(count) THEN 0 ELSE 1]

\* render(time): what one invocation does to the state it is given
Render(v, pl, vb, cv, count, cam, dragging, fc, start, time) ==
  IF ~pl \/ vb = <<>> THEN RenderIdle(v, cam, fc, start, time)
  ELSE RenderDraw(v, cv, count, cam, dragging, fc, start, time)

\* the history after a render() with result r, from history g
Rendered(g, r, vb, count, time) ==
  [g EXCEPT !.rendered = TRUE, !.idle = r.idle, !.drew = r.drew,
            !.threw = r.threw,
            !.drawArg = IF r.drew THEN count ELSE @,
            !.drawLen = IF r.drew THEN Len(vb[1]) ELSE @,
            !.mvp = r.mvp,
            !.offsets = IF r.drew THEN DrawOffsets(variant, count.v) ELSE @,
            !.reported = r.fps.report >= 0,
            !.ticks = IF time - g.winStart >= 1000 THEN 0 ELSE @ + 1,
            !.winStart = IF time - g.winStart >= 1000 THEN time ELSE @]

(***************************************************************************)
(* Loading geometry.                                                       *)
(***************************************************************************)
\* loadCloud(data, count) of main.js: the count is stored first, then
\* device.createBuffer throws a TypeError while device is undefined.
\* attempted: the handler reached the call of device.createBuffer.
loadCloud(v, dev, data, count, oldBuffer, oldStatus) ==
  [vertexCount |-> count,
   vertexBuffer |-> IF dev THEN <<data>> ELSE oldBuffer,
   status |-> IF ~dev THEN oldStatus
              ELSE IF v = "quad"
                   THEN TextN("points", IF count.nan THEN NaN ELSE Num(count.v \div 6))
              ELSE TextN("points", count),
   threw |-> ~dev, wroteCount |-> TRUE, wroteBuffer |-> dev, attempted |-> TRUE]

\* parsePLY(buffer) of main.js: decode, then loadCloud, then (first build) the
\* "points loaded" text.  Nothing is written when the decode throws.
parsePLYAndLoad(v, dev, lines, oldCount, oldBuffer, oldStatus) ==
  LET d == Decode(v, lines)
      l == loadCloud(v, dev, d.data, d.vertCount, oldBuffer, oldStatus)
  IN IF d.threw
     THEN [vertexCount |-> oldCount, vertexBuffer |-> oldBuffer,
           status |-> oldStatus, threw |-> TRUE, wroteCount |-> FALSE,
           wroteBuffer |-> FALSE, attempted |-> FALSE]
     ELSE IF v = "tri" /\ ~l.threw
          THEN [l EXCEPT !.status = TextN("points loaded", d.pointCount)]
          ELSE l

\* loadPLY(buffer) of part_000: parsePLY writes the status, vertexCount is
\* stored, and only then the records are decoded and the buffer is created
loadPLY(v, dev, lines, oldCount, oldBuffer, oldStatus) ==
  LET d == Decode(v, lines)
      ok == ~d.threw /\ dev
  IN [vertexCount |-> d.pointCount,
      vertexBuffer |-> IF ok THEN <<d.data>> ELSE oldBuffer,
      status |-> IF ok THEN TextN("Loaded gaussians", d.pointCount)
                 ELSE TextN("Parsing gaussians", d.pointCount),
      threw |-> ~ok, wroteCount |-> TRUE, wroteBuffer |-> ok,
      attempted |-> ~d.threw]

\* what the continuation of the change handler does with the file's bytes
LoadFile(v, dev, lines, oldCount, oldBuffer, oldStatus) ==
  IF v = "point" THEN loadPLY(v, dev, lines, oldCount, oldBuffer, oldStatus)
  ELSE parsePLYAndLoad(v, dev, lines, oldCount, oldBuffer, oldStatus)

(***************************************************************************)
(* Startup: init() and initWebGPU().                                       *)
(***************************************************************************)
\* (resize() without the re-creation of the depth texture)
resizeCanvasOnly(v, dev, size, oldDepth) ==
  [canvas |-> size, depthTexture |-> oldDepth]
\* resize(): the canvas takes the window's size; main.js creates a depth
\* texture of that size when a device exists
resize(v, dev, size, oldDepth) ==
  [canvas |-> size, depthTexture |-> IF dev /\ v # "point" THEN size ELSE oldDepth]

\* (init with the frame loop started whatever initWebGPU() returns)
initStartsLoop ==
  /\ pc = "start"
  /\ IF hasGPU
     THEN /\ pc' = "awaitAdapter"
          /\ UNCHANGED <<status, rafPending>>
     ELSE /\ pc' = "unsupported"
          /\ status' = Text("WebGPU not supported")
          /\ rafPending' = rafPending + 1
  /\ ghost' = Begin("init")
  /\ UNCHANGED <<variant, hasGPU, device, context, pipeline, innerSize, canvas,
                 depthTexture, camera, isDragging, lastMouse, vertexBuffer,
                 vertexCount, frameCount, fpsUpdateTime, fpsText, now,
                 pending, nextSeq>>

\* init() is called as the script ends: initWebGPU() runs to its first await,
\* or reports that navigator.gpu is missing and returns false
init ==
  /\ pc = "start"
  /\ IF hasGPU
     THEN /\ pc' = "awaitAdapter"
          /\ UNCHANGED status
     ELSE /\ pc' = "unsupported"
          /\ status' = Text("WebGPU not supported")
  /\ ghost' = Begin("init")
  /\ UNCHANGED <<variant, hasGPU, device, context, pipeline, innerSize, canvas,
                 depthTexture, camera, isDragging, lastMouse, vertexBuffer,
                 vertexCount, frameCount, fpsUpdateTime, fpsText, now,
                 rafPending, pending, nextSeq>>

\* navigator.gpu.requestAdapter() resolves, with an adapter or with null;
\* adapter.requestDevice() on null is a TypeError that ends init()
AdapterResolved(adapter) ==
  /\ pc = "awaitAdapter"
  /\ pc' = IF adapter THEN "awaitDevice" ELSE "threw"
  /\ ghost' = [Begin("adapter") EXCEPT !.threw = ~adapter]
  /\ UNCHANGED <<variant, hasGPU, device, context, pipeline, innerSize, canvas,
                 depthTexture, camera, isDragging, lastMouse, vertexBuffer,
                 vertexCount, status, frameCount, fpsUpdateTime, fpsText, now,
                 rafPending, pending, nextSeq>>

\* adapter.requestDevice() rejects: the await throws and init() ends
DeviceRejected ==
  /\ pc = "awaitDevice"
  /\ pc' = "threw"
  /\ ghost' = [Begin("device") EXCEPT !.threw = TRUE]
  /\ UNCHANGED <<variant, hasGPU, device, context, pipeline, innerSize, canvas,
                 depthTexture, camera, isDragging, lastMouse, vertexBuffer,
                 vertexCount, status, frameCount, fpsUpdateTime, fpsText, now,
                 rafPending, pending, nextSeq>>

\* the device arrives but canvas.getContext('webgpu') returns null:
\* context.configure is a TypeError that ends init(), after device was stored
ContextFailed ==
  /\ pc = "awaitDevice"
  /\ pc' = "threw"
  /\ device' = TRUE
  /\ ghost' = [Begin("device") EXCEPT !.threw = TRUE]
  /\ UNCHANGED <<variant, hasGPU, context, pipeline, innerSize, canvas,
                 depthTexture, camera, isDragging, lastMouse, vertexBuffer,
                 vertexCount, status, frameCount, fpsUpdateTime, fpsText, now,
                 rafPending, pending, nextSeq>>

\* the rest of a successful startup, in one turn of the event loop: the device
\* and context are stored, resize(), initWebGPU returns true, createPipeline(),
\* then main.js loads the default cloud and requests the first frame, while
\* part_000 calls render() directly
Started(points) ==
  /\ pc = "awaitDevice"
  /\ pc' = "running"
  /\ device' = TRUE
  /\ context' = TRUE
  /\ canvas' = resize(variant, TRUE, innerSize, depthTexture).canvas
  /\ depthTexture' = resize(variant, TRUE, innerSize, depthTexture).depthTexture
  /\ pipeline' = TRUE
  /\ IF variant = "point"
     THEN LET r == Render(variant, TRUE, vertexBuffer, innerSize, vertexCount, camera,
                          isDragging, frameCount, fpsUpdateTime, now)
          IN /\ status' = Text("WebGPU ready. Load a .ply file")
             /\ UNCHANGED <<vertexBuffer, vertexCount>>
             /\ camera' = r.camera
             /\ frameCount' = r.fps.frameCount
             /\ fpsUpdateTime' = r.fps.fpsUpdateTime
             /\ fpsText' = IF r.fps.report >= 0 THEN r.fps.report ELSE fpsText
             /\ rafPending' = rafPending + r.scheduled
             /\ ghost' = Rendered(Begin("started"), r, vertexBuffer, vertexCount, now)
     ELSE LET c == generateDefaultCloud(variant, points)
              l == loadCloud(variant, TRUE, c.data, c.count, vertexBuffer, status)
          IN /\ vertexCount' = l.vertexCount
             /\ vertexBuffer' = l.vertexBuffer
             /\ status' = l.status
             /\ rafPending' = rafPending + 1
             /\ ghost' = [Begin("started") EXCEPT !.bufLoad = 0, !.cntLoad = 0,
                            !.points = [i \in 1..Len(points) |-> VertexOf(points[i])]]
             /\ UNCHANGED <<camera, frameCount, fpsUpdateTime, fpsText>>
  /\ UNCHANGED <<variant, hasGPU, innerSize, isDragging, lastMouse, now,
                 pending, nextSeq>>

(***************************************************************************)
(* The frame callback.                                                     *)
(***************************************************************************)
\* the browser runs a requested render callback, dt ms after the last one
Tick(dt) ==
  /\ rafPending > 0
  /\ now + dt <= MaxTime
  /\ now' = now + dt
  /\ LET r == Render(variant, pipeline, vertexBuffer, canvas, vertexCount, camera,
                     isDragging, frameCount, fpsUpdateTime, now + dt)
     IN /\ camera' = r.camera
        /\ frameCount' = r.fps.frameCount
        /\ fpsUpdateTime' = r.fps.fpsUpdateTime
        /\ fpsText' = IF r.fps.report >= 0 THEN r.fps.report ELSE fpsText
        /\ rafPending' = rafPending - 1 + r.scheduled
        /\ ghost' = Rendered(Begin("render"), r, vertexBuffer, vertexCount, now + dt)
  /\ UNCHANGED <<variant, hasGPU, pc, device, context, pipeline, innerSize,
                 canvas, depthTexture, isDragging, lastMouse, vertexBuffer,
                 vertexCount, status, pending, nextSeq>>

(***************************************************************************)
(* Event handlers.  They are registered by the script and can run at any   *)
(* turn of the event loop after it, also between the awaits of startup.    *)
(***************************************************************************)
\* window 'resize' with the window's new size
Resize(size) ==
  /\ pc # "start"
  /\ size # innerSize
  /\ innerSize' = size
  /\ canvas' = resize(variant, device, size, depthTexture).canvas
  /\ depthTexture' = resize(variant, device, size, depthTexture).depthTexture
  /\ ghost' = Begin("resize")
  /\ UNCHANGED <<variant, hasGPU, pc, device, context, pipeline, camera,
                 isDragging, lastMouse, vertexBuffer, vertexCount, status,
                 frameCount, fpsUpdateTime, fpsText, now, rafPending, pending,
                 nextSeq>>

\* canvas 'mousedown'
MouseDown(pos) ==
  /\ pc # "start"
  /\ isDragging' = TRUE
  /\ lastMouse' = pos
  /\ ghost' = [Begin("mousedown") EXCEPT !.pressed = TRUE]
  /\ UNCHANGED <<variant, hasGPU, pc, device, context, pipeline, innerSize,
                 canvas, depthTexture, camera, vertexBuffer, vertexCount,
                 status, frameCount, fpsUpdateTime, fpsText, now, rafPending,
                 pending, nextSeq>>

\* the camera after a 'mousemove' to pos during a drag
DragCamera(v, cam, last, pos) ==
  [cam EXCEPT !.rotY = @ + (pos.x - last.x) * 10,
              !.rotX = ClampPitch(v, @ + (pos.y - last.y) * 10)]

\* canvas 'mousemove'
MouseMove(pos) ==
  /\ pc # "start"
  /\ isDragging =>
       /\ DragCamera(variant, camera, lastMouse, pos).rotY \in -MaxAngle..MaxAngle
       /\ DragCamera(variant, camera, lastMouse, pos).rotX \in -MaxAngle..MaxAngle
  /\ IF isDragging
     THEN /\ camera' = DragCamera(variant, camera, lastMouse, pos)
          /\ lastMouse' = pos
     ELSE UNCHANGED <<camera, lastMouse>>
  /\ ghost' = Begin("mousemove")
  /\ UNCHANGED <<variant, hasGPU, pc, device, context, pipeline, innerSize,
                 canvas, depthTexture, isDragging, vertexBuffer, vertexCount,
                 status, frameCount, fpsUpdateTime, fpsText, now, rafPending,
                 pending, nextSeq>>

\* canvas 'mouseup'
MouseUp ==
  /\ pc # "start"
  /\ isDragging' = FALSE
  /\ ghost' = [Begin("mouseup") EXCEPT !.pressed = FALSE]
  /\ UNCHANGED <<variant, hasGPU, pc, device, context, pipeline, innerSize,
                 canvas, depthTexture, camera, lastMouse, vertexBuffer,
                 vertexCount, status, frameCount, fpsUpdateTime, fpsText, now,
                 rafPending, pending, nextSeq>>

\* canvas 'mouseleave'
MouseLeave ==
  /\ pc # "start"
  /\ isDragging' = FALSE
  /\ ghost' = [Begin("mouseleave") EXCEPT !.pressed = FALSE]
  /\ UNCHANGED <<variant, hasGPU, pc, device, context, pipeline, innerSize,
                 canvas, depthTexture, camera, lastMouse, vertexBuffer,
                 vertexCount, status, frameCount, fpsUpdateTime, fpsText, now,
                 rafPending, pending, nextSeq>>

\* canvas 'wheel'
Wheel(deltaY) ==
  /\ pc # "start"
  /\ camera' = [camera EXCEPT !.z = WheelZ(variant, @, deltaY)]
  /\ ghost' = Begin("wheel")
  /\ UNCHANGED <<variant, hasGPU, pc, device, context, pipeline, innerSize,
                 canvas, depthTexture, isDragging, lastMouse, vertexBuffer,
                 vertexCount, status, frameCount, fpsUpdateTime, fpsText, now,
                 rafPending, pending, nextSeq>>

\* fileInput 'change' with a file: the status text, then the handler awaits
\* file.arrayBuffer()
FileChange(f) ==
  /\ pc # "start"
  /\ nextSeq < MaxLoads
  /\ nextSeq' = nextSeq + 1
  /\ pending' = pending \cup {[file |-> f, seq |-> nextSeq + 1]}
  /\ status' = Text(IF variant = "point" THEN "Loading file..." ELSE "Loading...")
  /\ ghost' = [Begin("change") EXCEPT !.picked = f]
  /\ UNCHANGED <<variant, hasGPU, pc, device, context, pipeline, innerSize,
                 canvas, depthTexture, camera, isDragging, lastMouse,
                 vertexBuffer, vertexCount, frameCount, fpsUpdateTime, fpsText,
                 now, rafPending>>

\* the bytes of read p arrive: the handler decodes them and loads the result
ReadResolved(p) ==
  /\ p \in pending
  /\ pending' = pending \ {p}
  /\ LET l == LoadFile(variant, device, p.file, vertexCount, vertexBuffer, status)
     IN /\ vertexCount' = l.vertexCount
        /\ vertexBuffer' = l.vertexBuffer
        /\ status' = l.status
        /\ ghost' = [Begin("load") EXCEPT
                       !.threw = l.threw,
                       !.attempted = l.attempted,
                       !.failed = @ \/ l.threw,
                       !.file = p.file,
                       !.cntLoad = IF l.wroteCount THEN p.seq ELSE @,
                       !.bufLoad = IF l.wroteBuffer THEN p.seq ELSE @,
                       !.points = IF l.wroteBuffer
                                  THEN Decode(variant, p.file).points ELSE @]
  /\ UNCHANGED <<variant, hasGPU, pc, device, context, pipeline, innerSize,
                 canvas, depthTexture, camera, isDragging, lastMouse,
                 frameCount, fpsUpdateTime, fpsText, now, rafPending, nextSeq>>

(***************************************************************************)
(* Specifications.  Every one runs the same handlers from the same initial *)
(* states; they differ in which events the environment delivers.           *)
(***************************************************************************)
StartupSteps ==
  \/ init
  \/ \E a \in BOOLEAN : AdapterResolved(a)
  \/ DeviceRejected
  \/ ContextFailed

\* startup with the generator's outcome fixed to DefaultScene
Startup ==
  \/ StartupSteps
  \/ Started(DefaultScene)

\* a session with file loads and window resizes, the pointer left alone
Next ==
  \/ Startup
  \/ \E dt \in TickSteps : Tick(dt)
  \/ \E size \in WindowSizes : Resize(size)
  \/ \E f \in Files : FileChange(f)
  \/ \E p \in pending : ReadResolved(p)

Spec == Init /\ [][Next]_vars

\* a session with pointer and wheel input, no file picked
NextCamera ==
  \/ Startup
  \/ \E dt \in TickSteps : Tick(dt)
  \/ \E pos \in MousePositions : MouseDown(pos)
  \/ \E pos \in MousePositions : MouseMove(pos)
  \/ MouseUp
  \/ MouseLeave
  \/ \E d \in WheelDeltas : Wheel(d)

SpecCamera == Init /\ [][NextCamera]_vars

\* a session in which one generated PLY text is picked, at any point of startup
\* or after it, with every outcome of the procedural generator
NextDecode ==
  \/ StartupSteps
  \/ \E points \in Scenes : Started(points)
  \/ \E f \in DecodeFiles : nextSeq = 0 /\ FileChange(f)
  \/ \E p \in pending : ReadResolved(p)

SpecDecode == Init /\ [][NextDecode]_vars

(***************************************************************************)
(* Claims.                                                                 *)
(***************************************************************************)
\* startup has ended without a device and context: navigator.gpu is missing,
\* the adapter was null, the device request was rejected or the context was null
StartupFailed == pc \in {"unsupported", "threw"}

C2_TerminalMessage ==
  (StartupFailed /\ ghost.op \in {"init", "adapter", "device"}) =>
    /\ status = Text("WebGPU not supported")
    /\ rafPending = 0

\* C4: in every reachable state the camera distance lies in the range of the
\* build: [1, 10] in main.js, [1, 50] in part_000.
C4_DistanceClamped ==
  /\ camera.z >= 1000
  /\ camera.z <= (IF variant = "point" THEN 50000 ELSE 10000)

\* C4 witness: a wheel event has pushed the distance of a main.js build to its
\* upper limit.
C4_Witness ==
  /\ ghost.op = "wheel"
  /\ variant = "quad"
  /\ camera.z = 10000

\* C5 (as stated): after any sequence of drag deltas the pitch is within
\* [-1.5, 1.5] rad, in every build.
C5_PitchClampedEverywhere == camera.rotX \in -1500..1500

\* a step of the mousemove handler during a drag
DragStep == ghost'.op = "mousemove" /\ isDragging

\* C5 (amended): in the builds of main.js the pitch stays within [-1.5, 1.5]
\* rad; part_000 has no pitch clamp and adds every vertical drag delta
\* unchanged; in every build the yaw takes every horizontal drag delta unchanged.
C5_PitchClampYawFree ==
  [][ /\ (variant # "point" => camera'.rotX \in -1500..1500)
      /\ (DragStep =>
            camera'.rotY = camera.rotY + (lastMouse'.x - lastMouse.x) * 10)
      /\ (DragStep /\ variant = "point" =>
            camera'.rotX = camera.rotX + (lastMouse'.y - lastMouse.y) * 10)
      /\ (DragStep /\ variant # "point" =>
            camera'.rotX =
              Max(-1500, Min(1500, camera.rotX + (lastMouse'.y - lastMouse.y) * 10)))
    ]_vars

\* C5 witness: a drag in a main.js build has run the pitch into the clamp while
\* the yaw moved past 1.5 rad.
C5_Witness ==
  /\ variant = "tri"
  /\ ghost.op = "mousemove"
  /\ camera.rotX = 1500
  /\ camera.rotY > 1500

\* C3: for both topologies (3 and 6 vertices per point), whenever a buffer is
\* live, from the procedural generator or from a decoded file, it holds exactly
\* N*k vertices for the N points of its load, N*k is the stored count, and the
\* vertex at index idx carries position and colour of point idx div k, alpha 1.
C3_Expansion ==
  (variant \in {"tri", "quad"} /\ vertexBuffer # <<>>) =>
    LET k == VerticesPerPoint(variant)
        data == vertexBuffer[1]
        pts == ghost.points
    IN /\ Len(data) = Len(pts) * k
       /\ vertexCount = Num(Len(pts) * k)
       /\ \A idx \in 1..Len(data) :
            /\ data[idx] = pts[((idx - 1) \div k) + 1]
            /\ data[idx][7] = Num(255)
       /\ \A i \in 1..Len(pts) : \A j \in 1..k : data[(i - 1) * k + j] = pts[i]

\* C3 witness: the quad build has decoded and uploaded a file of two different
\* records.
C3_Witness ==
  /\ variant = "quad"
  /\ ghost.op = "load"
  /\ ~ghost.threw
  /\ Len(ghost.points) = 2
  /\ ghost.points[1] # ghost.points[2]
  /\ Len(vertexBuffer[1]) = 12

\* the header of a PLY text lacks the count line or end_header, or declares
\* more records than lines follow the header
HasCountLine(lines) == \E i \in 1..Len(lines) : IsElementVertex(lines[i])
HasEndHeader(lines) == \E i \in 1..Len(lines) : IsEndHeader(lines[i])
DeclaredCount(lines) ==
  LET i == CHOOSE i \in 1..Len(lines) : IsElementVertex(lines[i]) IN lines[i][3].n
RecordsAfterHeader(lines) ==
  LET i == CHOOSE i \in 1..Len(lines) : IsEndHeader(lines[i]) IN Len(lines) - i
Malformed(lines) ==
  \/ ~HasCountLine(lines)
  \/ ~HasEndHeader(lines)
  \/ DeclaredCount(lines) > RecordsAfterHeader(lines)

\* C6 (as stated): a load of a text with a malformed header, or with fewer
\* records than declared, raises no error and leaves zero points loaded.
C6_MalformedLoadsNothing ==
  (ghost.op = "load" /\ device /\ Malformed(ghost.file)) =>
    /\ ~ghost.threw
    /\ vertexCount = Num(0)
    /\ vertexBuffer = << <<>> >>

\* the value the interface contract gives a colour field: c/255 for a number c
\* in [0, 255], 128/255 for an absent or unparsable field
ContractChannel(line, i) ==
  IF i <= Len(line) /\ line[i].w = "" /\ line[i].n \in 0..255
  THEN Num(line[i].n) ELSE Num(128)

\* C7 (as stated): every decoded record has the colour the contract gives each
\* of its fields 4..6 (c/255 also for c = 0), alpha 1.0, and its first three
\* fields as position.
C7_ColourDecoding ==
  (ghost.op = "load" /\ ~ghost.threw) =>
    LET h == ScanHeader(ghost.file, 1, Num(0))
        k == VerticesPerPoint(variant)
    IN \A i \in 1..Len(ghost.points) :
         LET line == ghost.file[h.headerEnd + i]
             vtx == vertexBuffer[1][(i - 1) * k + 1]
         IN /\ \A c \in 4..6 : vtx[c] = ContractChannel(line, c)
            /\ vtx[7] = Num(255)
            /\ \A c \in 1..3 :
                 (c <= Len(line) /\ line[c].w = "") => vtx[c] = Num(line[c].n)

\* C8 (as stated): at every draw the count passed equals the number of vertices
\* of the bound buffer, and count and buffer were written by the same load.
C8_DrawMatchesBuffer ==
  ghost.drew =>
    /\ ghost.drawArg = Num(ghost.drawLen)
    /\ ghost.cntLoad = ghost.bufLoad

\* a step that runs render(): a frame callback, or the direct call of part_000
RenderStep == ghost'.rendered /\ (now' # now \/ ghost'.op = "started")

\* C9 (as stated): every run of render() leaves exactly one frame callback
\* requested; a run that finds no pipeline or no buffer draws nothing and
\* leaves the camera alone.
C9_TickReschedules ==
  [][ RenderStep =>
        /\ rafPending' = 1
        /\ ((~pipeline' \/ vertexBuffer = <<>>) =>
              ~ghost'.drew /\ camera' = camera)
    ]_vars

\* C10 (as stated): every run of render() counts one frame; the first run at
\* least 1000 ms after the window's start reports the number of runs in the
\* window, zeroes the counter and starts the next window at the current time.
C10_FpsWindow ==
  [][ RenderStep =>
        IF now' - ghost.winStart >= 1000
        THEN /\ fpsText' = ghost.ticks + 1
             /\ frameCount' = 0
             /\ fpsUpdateTime' = now'
        ELSE /\ frameCount' = frameCount + 1
             /\ fpsText' = fpsText
             /\ fpsUpdateTime' = fpsUpdateTime
    ]_vars

\* the square's corner pattern of the interface contract, j = 0..5
Pattern ==
  << [x |-> -1000, y |-> -1000], [x |-> 1000, y |-> -1000], [x |-> 1000, y |-> 1000],
     [x |-> -1000, y |-> -1000], [x |-> 1000, y |-> 1000], [x |-> -1000, y |-> 1000] >>

\* twice the signed area of triangle a, b, c
TwiceArea(a, b, c) == (b.x - a.x) * (c.y - a.y) - (c.x - a.x) * (b.y - a.y)

\* triangles o[1..3] and o[4..6] have corners of the square [-1,1]^2 only, the
\* same orientation, half the square's area each, and share one diagonal
CoversSquare(o) ==
  /\ \A n \in 1..6 : o[n].x \in {-1000, 1000} /\ o[n].y \in {-1000, 1000}
  /\ TwiceArea(o[1], o[2], o[3]) = 4000000
  /\ TwiceArea(o[4], o[5], o[6]) = 4000000
  /\ {o[1], o[3]} = {o[4], o[5]}
  /\ o[2] # o[6]

\* C11: at every draw of the 6-vertex build, the vertex at buffer index i*6+j
\* carries point i and receives local offset pattern[j], for every point i and
\* j in 0..5, so the 6 vertices of a point form the two triangles that cover
\* the square [-1,1]^2 around it.
C11_QuadOffsets ==
  (variant = "quad" /\ ghost.drew) =>
    LET data == vertexBuffer[1]
        off == ghost.offsets
    IN /\ Len(off) = Len(data)
       /\ Len(data) = 6 * Len(ghost.points)
       /\ \A i \in 0..(Len(ghost.points) - 1) :
            /\ \A j \in 0..5 :
                 /\ off[i * 6 + j + 1] = Pattern[j + 1]
                 /\ data[i * 6 + j + 1] = ghost.points[i + 1]
            /\ CoversSquare([j \in 1..6 |-> off[i * 6 + j]])

\* C11 witness: the 6-vertex build has drawn a cloud of two points.
C11_Witness ==
  /\ variant = "quad"
  /\ ghost.op = "render"
  /\ ghost.drew
  /\ Len(ghost.points) = 2
  /\ Len(ghost.offsets) = 12

\* a matrix stored column by column, as perspective() and lookAt() write
\* theirs and as WGSL reads a mat4x4f: element (row r, column c), r, c in 0..3
At(m, r, c) == m[c * 4 + r + 1]

\* the standard product A x B of two matrices stored that way
Product(A, B) ==
  [n \in 1..16 |->
     LET c == (n - 1) \div 4
         r == (n - 1) % 4
     IN At(A, r, 0) * At(B, 0, c) + At(A, r, 1) * At(B, 1, c)
        + At(A, r, 2) * At(B, 2, c) + At(A, r, 3) * At(B, 3, c)]

\* m * p for the column vector p (the shader's mvp * vec4f(p, 1.0))
Transform(m, p) ==
  [r \in 1..4 |-> At(m, r - 1, 0) * p[1] + At(m, r - 1, 1) * p[2]
                   + At(m, r - 1, 2) * p[3] + At(m, r - 1, 3) * p[4]]

\* points the transforms are compared on (homogeneous, w = 1)
ProbePoints == { <<1, 0, 0, 1>>, <<0, 1, 0, 1>>, <<0, 0, 1, 1>>, <<1, 2, 3, 1>> }

\* C12 (as stated): the matrix render() uploads is the standard product
\* projection x view in the column-by-column storage of perspective() and
\* lookAt(), so that mvp * p is the projection of the view transform of p.
C12_MvpIsProjectionTimesView ==
  ghost.mvp # <<>> =>
    LET P == perspective(variant, Aspect(canvas))
        V == lookAt(camera)
    IN /\ ghost.mvp[1] = Product(P, V)
       /\ \A p \in ProbePoints :
            Transform(ghost.mvp[1], p) = Transform(P, Transform(V, p))

\* C13: a run of render() adds 0.005 rad to the yaw exactly when the build
\* auto-rotates and no drag is active (the pointer is not held since a press
\* on the canvas), and changes nothing else of the camera; while a drag is
\* active or when the build does not auto-rotate it leaves yaw, pitch and
\* distance unchanged; a pointer move outside a drag leaves the camera
\* unchanged.
C13_AutoRotation ==
  [][ /\ (RenderStep =>
            camera' = IF animating(variant) /\ ~ghost.pressed
                      THEN [camera EXCEPT !.rotY = @ + 5]
                      ELSE camera)
      /\ ((ghost'.op = "mousemove" /\ ~ghost.pressed) => camera' = camera)
      /\ isDragging' = ghost'.pressed
    ]_vars

\* C13 witness: in the auto-rotating build a frame has run during a drag that
\* began before the first frame, and the yaw is still the initial one.
C13_Witness ==
  /\ variant = "tri"
  /\ ghost.op = "render"
  /\ ghost.drew
  /\ ghost.pressed
  /\ camera.rotY = InitialCamera("tri").rotY

\* a step of the window's resize handler
ResizeStep == ghost'.op = "resize"

\* C14: in the builds with a depth buffer (main.js), every resize event handled
\* once a device is stored leaves a depth texture of the canvas' new size, and
\* after every draw, as at it, a depth texture exists whose size is the canvas'
\* size, however resize events interleave with the awaits of startup and with
\* frames.
C14_DepthTracksCanvas ==
  [][ variant # "point" =>
        /\ ((ResizeStep /\ device) =>
              /\ canvas' = innerSize'
              /\ depthTexture' = canvas'
              /\ depthTexture' # depthTexture)
        /\ (ghost'.drew => (depthTexture # 0 /\ depthTexture = canvas))
        /\ (pipeline' => (depthTexture' # 0 /\ depthTexture' = canvas'))
    ]_vars

\* C14 witness: a main.js build draws on a canvas whose size is not the one
\* the window had when the script started, with the depth texture of that size.
C14_Witness ==
  /\ variant = "tri"
  /\ ghost.op = "render"
  /\ ghost.drew
  /\ canvas = 2
  /\ depthTexture = 2

\* C15 (as stated): whenever the handler of a file selection reaches the
\* creation of the vertex buffer, at any point of the session, a device has been
\* acquired.
C15_NoUploadBeforeDevice ==
  (ghost.op = "load" /\ ghost.attempted) => device

\* C16 (as stated): once every read of a session's file selections has been
\* handled, none of them ending in an exception, the live vertex buffer and
\* vertex count are those of the file picked last, in whatever order the reads
\* resolved.
C16_LastSelectedWins ==
  (nextSeq >= 1 /\ pending = {} /\ ~ghost.failed) =>
    /\ vertexBuffer = <<Decode(variant, ghost.picked).data>>
    /\ vertexCount = Decode(variant, ghost.picked).vertCount

====
